---- MODULE Spec2Model ----
(***************************************************************************)
(* TrendRadar (src/main.py): the TrendAnalyzer class. Construction loads   *)
(* the three keyword lists from frequency_words.txt (three separate reads) *)
(* and resolves the time window; run() collects the platforms' headlines,  *)
(* classifies them with match_keywords and aggregates them in analyze_data.*)
(*                                                                         *)
(* Text is a sequence of one-character strings. Instants are integers, in  *)
(* hours; a date is the instant of its midnight. All instants of the model *)
(* lie well inside the range datetime can represent.                       *)
(***************************************************************************)
EXTENDS Integers, Sequences, FiniteSets, TLC

VARIABLES
    file,             \* frequency_words.txt on disk: a text, Missing or Unreadable
    file_changes,     \* how often another process has rewritten the file
    CONFIG,           \* the time and webhook settings read from the environment
    now,              \* the clock, read by datetime.now()
    api,              \* what each platform's endpoint serves: platform -> raw titles
    frequency_words,  \* self.frequency_words
    filter_words,     \* self.filter_words
    must_words,       \* self.must_words
    reads,            \* the file as each load's open()/read() found it
    time_range,       \* self.time_range
    all_data,         \* self.all_data
    analysis_result,  \* self.analysis_result
    title,            \* the argument of a call of match_keywords
    match_result,     \* what that call returned
    pc,               \* the statement the program is at
    frame,            \* the function whose pipeline copy is running
    calls,            \* what has been done so far in this run
    no_data_reported  \* the "no data, program terminating" line was printed

vars == <<file, file_changes, CONFIG, now, api, frequency_words, filter_words,
          must_words, reads, time_range, all_data, analysis_result, title,
          match_result, pc, frame, calls, no_data_reported>>

fileVars == <<file, file_changes>>
wordVars == <<frequency_words, filter_words, must_words, reads>>
runVars  == <<all_data, analysis_result, frame, calls, no_data_reported>>
callVars == <<title, match_result>>


-----------------------------------------------------------------------------
(* Text *)

\* str.lower() on one character: the letters of the model that have a lower case.
LowerChar(c) ==
    CASE c = "A" -> "a"
      [] c = "B" -> "b"
      [] c = "C" -> "c"
      [] c = "I" -> "i"
      [] OTHER   -> c

\* str.lower()
Lower(s) == [i \in 1..Len(s) |-> LowerChar(s[i])]

\* Python's `w in t` on strings: w is a contiguous run of t (the empty w always is).
Contains(w, t) ==
    \E i \in 0..(Len(t) - Len(w)) : SubSeq(t, i + 1, i + Len(w)) = w

\* The sequences over S of length at most n.
SeqUpTo(S, n) == UNION {[1..k -> S] : k \in 0..n}

-----------------------------------------------------------------------------
(* TrendAnalyzer.match_keywords *)

\* A slip in match_keywords: the must-word check placed before the filter-word check.
match_keywords_must_first(t) ==
    IF t = <<>> THEN <<<<>>, FALSE>>
    ELSE
      LET title_lower == Lower(t)
          Hit(w) == Contains(Lower(w), title_lower)
          must_match_count == Cardinality({i \in 1..Len(must_words) : Hit(must_words[i])})
      IN  IF must_words # <<>> /\ must_match_count < Len(must_words)
          THEN <<<<>>, FALSE>>
          ELSE IF \E i \in 1..Len(filter_words) : Hit(filter_words[i])
          THEN <<<<>>, TRUE>>
          ELSE <<SelectSeq(frequency_words, Hit), FALSE>>

\* A slip in match_keywords: `<=` for `<` in the comparison of the must-word count.
match_keywords_must_le(t) ==
    IF t = <<>> THEN <<<<>>, FALSE>>
    ELSE
      LET title_lower == Lower(t)
          Hit(w) == Contains(Lower(w), title_lower)
          must_match_count == Cardinality({i \in 1..Len(must_words) : Hit(must_words[i])})
      IN  IF \E i \in 1..Len(filter_words) : Hit(filter_words[i])
          THEN <<<<>>, TRUE>>
          ELSE IF must_words # <<>> /\ must_match_count <= Len(must_words)
          THEN <<<<>>, FALSE>>
          ELSE <<SelectSeq(frequency_words, Hit), FALSE>>

\* match_keywords(title) -> (matched_words, is_filtered)
match_keywords(t) ==
    IF t = <<>> THEN <<<<>>, FALSE>>
    ELSE
      LET title_lower == Lower(t)
          Hit(w) == Contains(Lower(w), title_lower)
          must_match_count == Cardinality({i \in 1..Len(must_words) : Hit(must_words[i])})
      IN  IF \E i \in 1..Len(filter_words) : Hit(filter_words[i])
          THEN <<<<>>, TRUE>>
          ELSE IF must_words # <<>> /\ must_match_count < Len(must_words)
          THEN <<<<>>, FALSE>>
          ELSE <<SelectSeq(frequency_words, Hit), FALSE>>

\* A direct call of match_keywords on the title at hand.
CallMatchKeywords ==
    /\ pc = "match_keywords"
    /\ match_result' = match_keywords(title)
    /\ pc' = "matched"
    /\ UNCHANGED <<fileVars, CONFIG, now, api, wordVars, time_range, runVars, title>>

-----------------------------------------------------------------------------
(* TrendAnalyzer.calculate_time_range *)

\* A date setting: the empty string, a text strptime rejects, or a YYYY-MM-DD date.
Unset     == [set |-> FALSE, ok |-> FALSE, day |-> 0]
Malformed == [set |-> TRUE,  ok |-> FALSE, day |-> 0]
Date(d)   == [set |-> TRUE,  ok |-> TRUE,  day |-> d]

DefaultHours == 24

\* datetime.strptime(s, '%Y-%m-%d') of a text it accepts: the date's midnight.
\* On any other text it raises ValueError (s.ok is false).
strptime(s) == s.day * 24

\* timedelta(days = d)
timedelta_days(d) == d * 24

\* Lines 109-120: the window of the last days*24+hours hours.
duration ==
    LET hours       == CONFIG.HISTORY_DAYS * 24 + CONFIG.HISTORY_HOURS
        total_hours == IF hours <= 0 THEN DefaultHours ELSE hours
    IN  [start_date |-> now - total_hours, end_date |-> now, mode |-> "duration"]

\* A slip in the custom range: the end date is not clamped to now.
custom_range_no_clamp ==
    LET start    == strptime(CONFIG.CUSTOM_START_DATE)
        end_date == strptime(CONFIG.CUSTOM_END_DATE)
        start_date == IF start > end_date THEN end_date - timedelta_days(1) ELSE start
    IN  [start_date |-> start_date, end_date |-> end_date, mode |-> "custom_range"]

\* A slip in the custom range: a start after the end is reset to the end itself.
custom_range_reset_to_end ==
    LET start    == strptime(CONFIG.CUSTOM_START_DATE)
        end      == strptime(CONFIG.CUSTOM_END_DATE)
        end_date == IF end > now THEN now ELSE end
        start_date == IF start > end_date THEN end_date ELSE start
    IN  [start_date |-> start_date, end_date |-> end_date, mode |-> "custom_range"]

\* Lines 72-88: both dates parsed.
custom_range ==
    LET start    == strptime(CONFIG.CUSTOM_START_DATE)
        end      == strptime(CONFIG.CUSTOM_END_DATE)
        end_date == IF end > now THEN now ELSE end
        start_date == IF start > end_date THEN end_date - timedelta_days(1) ELSE start
    IN  [start_date |-> start_date, end_date |-> end_date, mode |-> "custom_range"]

\* Lines 95-104: the start date parsed, no end date configured.
from_date ==
    LET start      == strptime(CONFIG.CUSTOM_START_DATE)
        start_date == IF start > now THEN now - timedelta_days(1) ELSE start
    IN  [start_date |-> start_date, end_date |-> now, mode |-> "from_date"]

\* A different control flow: a failed parse of the pair goes on to the start-only rule.
calculate_time_range_next_rule ==
    IF /\ CONFIG.CUSTOM_START_DATE.set /\ CONFIG.CUSTOM_END_DATE.set
       /\ CONFIG.CUSTOM_START_DATE.ok /\ CONFIG.CUSTOM_END_DATE.ok
    THEN custom_range
    ELSE IF CONFIG.CUSTOM_START_DATE.set /\ CONFIG.CUSTOM_START_DATE.ok
    THEN from_date
    ELSE duration

\* calculate_time_range(): if both dates are set / elif the start date is set / the
\* duration. A ValueError of strptime is caught inside the branch that was entered,
\* and the statement after the if/elif, the duration, is what runs next.
calculate_time_range ==
    IF CONFIG.CUSTOM_START_DATE.set /\ CONFIG.CUSTOM_END_DATE.set
    THEN IF CONFIG.CUSTOM_START_DATE.ok /\ CONFIG.CUSTOM_END_DATE.ok
         THEN custom_range
         ELSE duration
    ELSE IF CONFIG.CUSTOM_START_DATE.set
    THEN IF CONFIG.CUSTOM_START_DATE.ok
         THEN from_date
         ELSE duration
    ELSE duration

\* __init__, line 63: self.time_range = self.calculate_time_range()
CalculateTimeRange ==
    /\ pc = "calculate_time_range"
    /\ time_range' = <<calculate_time_range>>
    /\ pc' = "constructed"
    /\ UNCHANGED <<fileVars, CONFIG, now, api, wordVars, runVars, callVars>>

-----------------------------------------------------------------------------
(* load_frequency_words, load_filter_words, load_must_words *)

\* frequency_words.txt: absent, present but open()/read() fails (no permission, a
\* directory, bytes that are not UTF-8), or readable with a content.
Missing    == [state |-> "missing", content |-> <<>>]
Unreadable == [state |-> "error",   content |-> <<>>]
Text(c)    == [state |-> "ok",      content |-> c]

IsSpace(c) == c \in {" ", "\n"}

RECURSIVE strip(_)
\* str.strip()
strip(s) ==
    IF s = <<>> THEN s
    ELSE IF IsSpace(Head(s)) THEN strip(Tail(s))
    ELSE IF IsSpace(s[Len(s)]) THEN strip(SubSeq(s, 1, Len(s) - 1))
    ELSE s

RECURSIVE split(_)
\* str.split('\n'): the lines, of which there is always at least one.
split(s) ==
    IF \A i \in 1..Len(s) : s[i] # "\n" THEN <<s>>
    ELSE LET i == CHOOSE k \in 1..Len(s) :
                    s[k] = "\n" /\ \A j \in 1..(k - 1) : s[j] # "\n"
         IN  <<SubSeq(s, 1, i - 1)>> \o split(SubSeq(s, i + 1, Len(s)))

\* str.startswith(c)
startswith(line, c) == line # <<>> /\ line[1] = c

\* [line.strip() for line in content.split('\n')]
stripped_lines(content) ==
    LET lines == split(content) IN [i \in 1..Len(lines) |-> strip(lines[i])]

\* Line 138: the built-in keywords ("AI" and six Chinese words, a character being
\* named by its code point).
DefaultWords ==
    << <<"A", "I">>,
       <<"u4eba", "u5de5", "u667a", "u80fd">>,
       <<"u80a1", "u5e02">>,
       <<"u623f", "u4ef7">>,
       <<"u65b0", "u80fd", "u6e90">>,
       <<"u6559", "u80b2">>,
       <<"u5c31", "u4e1a">> >>

\* A different handler: every failure of the read answered with the built-in list.
load_frequency_words_always_default(f) ==
    IF f.state # "ok" THEN DefaultWords
    ELSE LET content == strip(f.content)
             Keep(line) == /\ line # <<>>
                           /\ ~startswith(line, "#")
                           /\ ~startswith(line, "!")
                           /\ ~startswith(line, "+")
         IN  IF content = <<>> THEN <<>>
             ELSE SelectSeq(stripped_lines(content), Keep)

\* load_frequency_words()
load_frequency_words(f) ==
    IF f.state = "missing" THEN DefaultWords
    ELSE IF f.state = "error" THEN <<>>
    ELSE LET content == strip(f.content)
             Keep(line) == /\ line # <<>>
                           /\ ~startswith(line, "#")
                           /\ ~startswith(line, "!")
                           /\ ~startswith(line, "+")
         IN  IF content = <<>> THEN <<>>
             ELSE SelectSeq(stripped_lines(content), Keep)

\* The lines that start with `prefix`, each without its first character.
prefixed_words(f, prefix) ==
    LET IsPrefixed(line) == startswith(line, prefix)
        kept == SelectSeq(stripped_lines(strip(f.content)), IsPrefixed)
    IN  [i \in 1..Len(kept) |-> Tail(kept[i])]

\* load_filter_words(): any failure of the read gives [].
load_filter_words(f) ==
    IF f.state # "ok" THEN <<>> ELSE prefixed_words(f, "!")

\* load_must_words(): any failure of the read gives [].
load_must_words(f) ==
    IF f.state # "ok" THEN <<>> ELSE prefixed_words(f, "+")

\* __init__, line 58
LoadFrequencyWords ==
    /\ pc = "load_frequency_words"
    /\ frequency_words' = load_frequency_words(file)
    /\ reads' = [reads EXCEPT !.frequency = file]
    /\ pc' = "load_filter_words"
    /\ UNCHANGED <<fileVars, CONFIG, now, api, filter_words, must_words,
                   time_range, runVars, callVars>>

\* __init__, line 59
LoadFilterWords ==
    /\ pc = "load_filter_words"
    /\ filter_words' = load_filter_words(file)
    /\ reads' = [reads EXCEPT !.filter = file]
    /\ pc' = "load_must_words"
    /\ UNCHANGED <<fileVars, CONFIG, now, api, frequency_words, must_words,
                   time_range, runVars, callVars>>

\* __init__, lines 60-62
LoadMustWords ==
    /\ pc = "load_must_words"
    /\ must_words' = load_must_words(file)
    /\ reads' = [reads EXCEPT !.must = file]
    /\ all_data' = <<>>
    /\ analysis_result' = <<>>
    /\ pc' = "calculate_time_range"
    /\ UNCHANGED <<fileVars, CONFIG, now, api, frequency_words, filter_words,
                   time_range, frame, calls, no_data_reported, callVars>>

-----------------------------------------------------------------------------
(* fetch_platform_data, collect_all_data *)

\* PLATFORMS, of which the model keeps the first two: (platform_id, platform_name).
PLATFORMS == << <<"toutiao", "name_toutiao">>, <<"baidu", "name_baidu">> >>

PlatformIds == {PLATFORMS[i][1] : i \in 1..Len(PLATFORMS)}

\* fetch_platform_data(platform_id) when the request succeeds: the items of the feed
\* numbered from 1, those with an empty title dropped. api holds each item's title
\* as clean_text leaves it. (A feed of the model is shorter than
\* MAX_RESULTS_PER_PLATFORM, so the slice keeps all of it.)
fetch_platform_data(platform_id) ==
    LET news_list == api[platform_id]
        processed == [i \in 1..Len(news_list) |->
                         [title |-> news_list[i], rank |-> i, platform_id |-> platform_id]]
        HasTitle(item) == item.title # <<>>
    IN  SelectSeq(processed, HasTitle)

RECURSIVE collect_from(_, _)
\* The loop of collect_all_data over the platforms from the k-th on; the request to
\* a platform in `failed` times out or fails and yields [].
collect_from(k, failed) ==
    IF k > Len(PLATFORMS) THEN <<>>
    ELSE LET platform_id   == PLATFORMS[k][1]
             platform_name == PLATFORMS[k][2]
             data == IF platform_id \in failed THEN <<>>
                     ELSE fetch_platform_data(platform_id)
             named == [i \in 1..Len(data) |->
                          [title |-> data[i].title, rank |-> data[i].rank,
                           platform_name |-> platform_name]]
         IN  named \o collect_from(k + 1, failed)

\* collect_all_data()
collect_all_data(failed) == collect_from(1, failed)

-----------------------------------------------------------------------------
(* TrendAnalyzer.analyze_data *)

\* list.sort(key = ...) and sorted(key = ...), keys[i] being the key of s[i]:
\* ascending in the key, elements of equal key in their original order. (With
\* reverse = True Python keeps the original order of equal elements too, so it is
\* the same sort on the negated key.)
StableSortBy(s, keys) ==
    LET Pos(i) == 1 + Cardinality({j \in 1..Len(s) :
                        \/ keys[j] < keys[i]
                        \/ (keys[j] = keys[i] /\ j < i)})
    IN  [p \in 1..Len(s) |-> s[CHOOSE i \in 1..Len(s) : Pos(i) = p]]

\* keyword_matches[keyword].append(entry) on a defaultdict(list), kept as the
\* sequence of its (keyword, items) pairs in insertion order.
group_append(groups, keyword, entry) ==
    IF \E g \in 1..Len(groups) : groups[g].keyword = keyword
    THEN [g \in 1..Len(groups) |->
             IF groups[g].keyword = keyword
             THEN [groups[g] EXCEPT !.items = Append(@, entry)]
             ELSE groups[g]]
    ELSE Append(groups, [keyword |-> keyword, items |-> <<entry>>])

\* A slip in the loop body: a headline that is not filtered but has no match
\* (rejected by the must words, or no keyword hit) is counted as filtered.
classify_item_unmatched_as_filtered(acc, item) ==
    LET m == match_keywords(item.title)
        matched_keywords == m[1]
        is_filtered == m[2]
    IN  IF is_filtered \/ matched_keywords = <<>>
        THEN [acc EXCEPT !.filtered_count = @ + 1]
        ELSE [acc EXCEPT
                 !.matched_count = @ + 1,
                 !.keyword_matches =
                     group_append(@, matched_keywords[1],
                                  [title |-> item.title,
                                   platform |-> item.platform_name,
                                   rank |-> item.rank,
                                   all_matched_keywords |-> matched_keywords])]

\* A slip in the loop body: the last matched keyword taken as the primary keyword.
classify_item_last_keyword(acc, item) ==
    LET m == match_keywords(item.title)
        matched_keywords == m[1]
        is_filtered == m[2]
    IN  IF is_filtered
        THEN [acc EXCEPT !.filtered_count = @ + 1]
        ELSE IF matched_keywords # <<>>
        THEN [acc EXCEPT
                 !.matched_count = @ + 1,
                 !.keyword_matches =
                     group_append(@, matched_keywords[Len(matched_keywords)],
                                  [title |-> item.title,
                                   platform |-> item.platform_name,
                                   rank |-> item.rank,
                                   all_matched_keywords |-> matched_keywords])]
        ELSE acc

\* A slip in the loop body: matched_count raised by the number of keywords matched.
classify_item_counts_every_keyword(acc, item) ==
    LET m == match_keywords(item.title)
        matched_keywords == m[1]
        is_filtered == m[2]
    IN  IF is_filtered
        THEN [acc EXCEPT !.filtered_count = @ + 1]
        ELSE IF matched_keywords # <<>>
        THEN [acc EXCEPT
                 !.matched_count = @ + Len(matched_keywords),
                 !.keyword_matches =
                     group_append(@, matched_keywords[1],
                                  [title |-> item.title,
                                   platform |-> item.platform_name,
                                   rank |-> item.rank,
                                   all_matched_keywords |-> matched_keywords])]
        ELSE acc

\* Lines 313-332: the body of the loop over self.all_data.
classify_item(acc, item) ==
    LET m == match_keywords(item.title)
        matched_keywords == m[1]
        is_filtered == m[2]
    IN  IF is_filtered
        THEN [acc EXCEPT !.filtered_count = @ + 1]
        ELSE IF matched_keywords # <<>>
        THEN [acc EXCEPT
                 !.matched_count = @ + 1,
                 !.keyword_matches =
                     group_append(@, matched_keywords[1],
                                  [title |-> item.title,
                                   platform |-> item.platform_name,
                                   rank |-> item.rank,
                                   all_matched_keywords |-> matched_keywords])]
        ELSE acc

RECURSIVE classify_all(_, _)
\* Lines 309-332: the loop over the first n headlines.
classify_all(data, n) ==
    IF n = 0
    THEN [keyword_matches |-> <<>>, filtered_count |-> 0, matched_count |-> 0]
    ELSE classify_item(classify_all(data, n - 1), data[n])

\* Counter(item['platform_name'] for item in data)
platform_stats(data) ==
    LET names == {data[i].platform_name : i \in 1..Len(data)}
    IN  [name \in names |-> Cardinality({i \in 1..Len(data) : data[i].platform_name = name})]

\* Lines 335-344: sorted(keyword_popularity.items(), key = count, reverse = True)
sorted_keywords(groups) ==
    LET keyword_popularity ==
            [g \in 1..Len(groups) |-> <<groups[g].keyword, Len(groups[g].items)>>]
        neg_count == [g \in 1..Len(groups) |-> 0 - keyword_popularity[g][2]]
    IN  StableSortBy(keyword_popularity, neg_count)

\* A slip after the loop: the groups are left in the order of arrival.
sort_groups_unsorted(groups) == groups

\* Lines 347-348: every group's items sorted by rank.
sort_groups(groups) ==
    [g \in 1..Len(groups) |->
        LET items == groups[g].items
            rank  == [k \in 1..Len(items) |-> items[k].rank]
        IN  [groups[g] EXCEPT !.items = StableSortBy(items, rank)]]

\* analyze_data(), without analysis_time and config_summary.
analyze_data ==
    LET acc == classify_all(all_data, Len(all_data))
    IN  [total_items     |-> Len(all_data),
         matched_count   |-> acc.matched_count,
         filtered_count  |-> acc.filtered_count,
         platform_stats  |-> platform_stats(all_data),
         keyword_matches |-> sort_groups(acc.keyword_matches),
         sorted_keywords |-> sorted_keywords(acc.keyword_matches)]

-----------------------------------------------------------------------------
(* The inputs the model draws from *)

MaxRuleWords   == 3    \* words of a rule set handed to match_keywords
MaxTitleLen    == 2    \* characters of a title handed to match_keywords
MaxDate        == 4    \* the configured dates are the days 0..MaxDate
MaxNow         == 50   \* the clock reads an hour of 24..MaxNow
MaxDays        == 1    \* HISTORY_DAYS is in -MaxDays..MaxDays
MaxHours       == 25   \* HISTORY_HOURS is in -MaxHours..MaxHours
MaxFileLen     == 4    \* characters of frequency_words.txt
MaxFileChanges == 1    \* rewrites of the file during construction
MaxFeed        == 2    \* items a platform serves

\* Rule words and titles of direct calls of match_keywords.
MatchWords == << <<"b">>, <<"A">>, <<"a", "b">>, <<>> >>
TitleChars == {"a", "A", "b"}
Titles     == SeqUpTo(TitleChars, MaxTitleLen)

\* Time settings.
DateSettings == {Unset, Malformed} \cup {Date(d) : d \in 0..MaxDate}
TimeConfigs ==
    [CUSTOM_START_DATE : DateSettings, CUSTOM_END_DATE : DateSettings,
     HISTORY_DAYS : (0 - MaxDays)..MaxDays, HISTORY_HOURS : (0 - MaxHours)..MaxHours,
     FEISHU_WEBHOOK_URL : {FALSE}]
Clock == 24..MaxNow

\* Contents of frequency_words.txt.
FileChars  == {"a", "!", "+", "#", " ", "\n"}
FileStates == {Missing, Unreadable} \cup {Text(c) : c \in SeqUpTo(FileChars, MaxFileLen)}
RewritePool ==
    {Missing, Unreadable, Text(<<"a">>), Text(<<"!", "a", "\n", "+", "b">>)}

\* What the platforms serve, and the rule sets the analysis is run with.
RawTitles == {<<>>, <<"A">>, <<"a", "b">>, <<"b", "c">>}
Apis      == [PlatformIds -> SeqUpTo(RawTitles, MaxFeed)]
RuleSet(frequency, filter, must) ==
    [frequency |-> frequency, filter |-> filter, must |-> must]
AnalyzeRuleSets ==
    {RuleSet(<< <<"a">>, <<"B">> >>, <<>>, <<>>),
     RuleSet(<< <<"B">>, <<"a">> >>, <<>>, <<>>),
     RuleSet(<< <<"a">>, <<"B">> >>, << <<"c">> >>, << <<"b">> >>),
     RuleSet(<< <<"B">>, <<"a">> >>, << <<"C">> >>, <<>>),
     RuleSet(<< <<"a">> >>, <<>>, << <<"B">> >>),
     RuleSet(<<>>, << <<"c">> >>, <<>>)}

\* The whole program's inputs.
FilePool ==
    {Missing, Unreadable,
     Text(<<"a", "\n", "!", "b">>),
     Text(<<"+", "b", "\n", "a">>),
     Text(<<"b", "\n", "a">>),
     Text(<<"a", "\n", "B">>)}
ConfigPool ==
    {[CUSTOM_START_DATE |-> s[1], CUSTOM_END_DATE |-> s[2], HISTORY_DAYS |-> 1,
      HISTORY_HOURS |-> 0, FEISHU_WEBHOOK_URL |-> w] :
        s \in {<<Unset, Unset>>, <<Date(1), Malformed>>}, w \in BOOLEAN}
ApiPool ==
    {[p \in PlatformIds |-> IF p = "toutiao" THEN f[1] ELSE f[2]] :
        f \in { << <<>>, <<>> >>,
                << << <<"A">> >>, << <<"a", "b">> >> >>,
                << << <<"a", "b">>, <<"A">> >>, << <<>>, <<"A">> >> >> }}

-----------------------------------------------------------------------------
(* TrendAnalyzer.run and print_time_config_help *)

\* CONFIG['CONTINUE_WITHOUT_FEISHU'], line 30
CONTINUE_WITHOUT_FEISHU == TRUE

\* The end of the pipeline copy that is running (its last statement, a return, or an
\* exception caught by its handlers): print_time_config_help returns into run(), which
\* goes on to its own try block; run() returns to main().
Return ==
    IF frame = "print_time_config_help"
    THEN pc' = "collect" /\ frame' = "run"
    ELSE pc' = "done" /\ frame' = "main"

\* run(), lines 664-669: the banner, then the call of print_time_config_help, which
\* prints the help text (lines 707-724) and enters its try block.
RunStart ==
    /\ pc = "constructed"
    /\ pc' = "collect"
    /\ frame' = "print_time_config_help"
    /\ UNCHANGED <<fileVars, CONFIG, now, api, wordVars, time_range, all_data,
                   analysis_result, calls, no_data_reported, callVars>>

\* Lines 673-677 and 728-732: self.all_data = self.collect_all_data(); no data ends
\* the function after the "no data, program terminating" line.
Collect ==
    /\ pc = "collect"
    /\ \E failed \in SUBSET PlatformIds :
          all_data' = collect_all_data(failed)
    /\ calls' = [calls EXCEPT !.collect = @ + 1]
    /\ IF all_data' = <<>>
       THEN no_data_reported' = TRUE /\ Return
       ELSE UNCHANGED no_data_reported /\ pc' = "analyze" /\ UNCHANGED frame
    /\ UNCHANGED <<fileVars, CONFIG, now, api, wordVars, time_range,
                   analysis_result, callVars>>

\* Lines 680 and 735: self.analysis_result = self.analyze_data()
Analyze ==
    /\ pc = "analyze"
    /\ analysis_result' = <<analyze_data>>
    /\ calls' = [calls EXCEPT !.analyze = @ + 1]
    /\ pc' = "report"
    /\ UNCHANGED <<fileVars, CONFIG, now, api, wordVars, time_range, all_data,
                   frame, no_data_reported, callVars>>

\* Lines 683-688 and 738-743: with a webhook configured the report is generated and
\* posted; send_feishu_message catches a failed post and returns False.
Report ==
    /\ pc = "report"
    /\ IF CONFIG.FEISHU_WEBHOOK_URL
       THEN /\ \E delivered \in BOOLEAN :
                 calls' = [calls EXCEPT !.sent = IF delivered THEN @ + 1 ELSE @]
            /\ pc' = "save" /\ UNCHANGED frame
       ELSE IF ~CONTINUE_WITHOUT_FEISHU
       THEN UNCHANGED calls /\ Return
       ELSE UNCHANGED calls /\ pc' = "save" /\ UNCHANGED frame
    /\ UNCHANGED <<fileVars, CONFIG, now, api, wordVars, time_range, all_data,
                   analysis_result, no_data_reported, callVars>>

\* Lines 691 and 746: save_html_report() writes the report files, and catches a
\* failure to write them.
SaveHtml ==
    /\ pc = "save"
    /\ \E written \in BOOLEAN :
          calls' = [calls EXCEPT !.saved = IF written THEN @ + 1 ELSE @]
    /\ pc' = "summary"
    /\ UNCHANGED <<fileVars, CONFIG, now, api, wordVars, time_range, all_data,
                   analysis_result, frame, no_data_reported, callVars>>

\* Lines 694-696 and 749-751: print_summary() and the closing line.
PrintSummary ==
    /\ pc = "summary"
    /\ Return
    /\ UNCHANGED <<fileVars, CONFIG, now, api, wordVars, time_range, all_data,
                   analysis_result, calls, no_data_reported, callVars>>

\* Lines 698-699 and 753-754: a KeyboardInterrupt inside the try block is caught and
\* ends the function.
Interrupt ==
    /\ pc \in {"collect", "analyze", "report", "save", "summary"}
    /\ Return
    /\ UNCHANGED <<fileVars, CONFIG, now, api, wordVars, time_range, all_data,
                   analysis_result, calls, no_data_reported, callVars>>

\* Another process rewrites, removes or locks frequency_words.txt.
FileChange ==
    /\ file_changes < MaxFileChanges
    /\ pc \in {"load_frequency_words", "load_filter_words", "load_must_words"}
    /\ \E f \in RewritePool : f # file /\ file' = f
    /\ file_changes' = file_changes + 1
    /\ UNCHANGED <<CONFIG, now, api, wordVars, time_range, runVars, callVars, pc>>

-----------------------------------------------------------------------------
(* Specifications *)

NotRead == [state |-> "none", content |-> <<>>]
NoReads == [frequency |-> NotRead, filter |-> NotRead, must |-> NotRead]
NoCalls == [collect |-> 0, analyze |-> 0, sent |-> 0, saved |-> 0]

\* Nothing has run yet.
Fresh ==
    /\ file_changes = 0
    /\ reads = NoReads
    /\ all_data = <<>>
    /\ analysis_result = <<>>
    /\ match_result = <<>>
    /\ frame = "main"
    /\ calls = NoCalls
    /\ no_data_reported = FALSE

\* The whole program, main(): TrendAnalyzer() and then run().
Init ==
    /\ Fresh
    /\ title = <<>>
    /\ file \in FilePool
    /\ CONFIG \in ConfigPool
    /\ now = MaxNow
    /\ api \in ApiPool
    /\ frequency_words = <<>> /\ filter_words = <<>> /\ must_words = <<>>
    /\ time_range = <<>>
    /\ pc = "load_frequency_words"

Next ==
    \/ LoadFrequencyWords
    \/ LoadFilterWords
    \/ LoadMustWords
    \/ FileChange
    \/ CalculateTimeRange
    \/ RunStart
    \/ Collect
    \/ Analyze
    \/ Report
    \/ SaveHtml
    \/ PrintSummary
    \/ Interrupt

Spec == Init /\ [][Next]_vars

\* match_keywords called on any title with any rule set.
InitMatch ==
    /\ Fresh
    /\ file = Missing
    /\ CONFIG \in ConfigPool /\ CONFIG.CUSTOM_START_DATE = Unset /\ ~CONFIG.FEISHU_WEBHOOK_URL
    /\ now = MaxNow
    /\ api = [p \in PlatformIds |-> <<>>]
    /\ \E picks \in SeqUpTo(1..Len(MatchWords), MaxRuleWords) :
          LET ws == [k \in 1..Len(picks) |-> MatchWords[picks[k]]]
          IN  \E i \in 0..Len(ws) : \E j \in i..Len(ws) :
                 /\ filter_words = SubSeq(ws, 1, i)
                 /\ must_words = SubSeq(ws, i + 1, j)
                 /\ frequency_words = SubSeq(ws, j + 1, Len(ws))
    /\ time_range = <<>>
    /\ title \in Titles
    /\ pc = "match_keywords"

NextMatch == CallMatchKeywords

SpecMatch == InitMatch /\ [][NextMatch]_vars

\* calculate_time_range under any time configuration at any reading of the clock.
InitTime ==
    /\ Fresh
    /\ title = <<>>
    /\ file = Missing
    /\ CONFIG \in TimeConfigs
    /\ now \in Clock
    /\ api = [p \in PlatformIds |-> <<>>]
    /\ frequency_words = <<>> /\ filter_words = <<>> /\ must_words = <<>>
    /\ time_range = <<>>
    /\ pc = "calculate_time_range"

NextTime == CalculateTimeRange

SpecTime == InitTime /\ [][NextTime]_vars

\* The three loads of construction on any file, with another process at the file.
InitLoad ==
    /\ Fresh
    /\ title = <<>>
    /\ file \in FileStates
    /\ CONFIG \in ConfigPool /\ CONFIG.CUSTOM_START_DATE = Unset /\ ~CONFIG.FEISHU_WEBHOOK_URL
    /\ now = MaxNow
    /\ api = [p \in PlatformIds |-> <<>>]
    /\ frequency_words = <<>> /\ filter_words = <<>> /\ must_words = <<>>
    /\ time_range = <<>>
    /\ pc = "load_frequency_words"

NextLoad ==
    \/ LoadFrequencyWords
    \/ LoadFilterWords
    \/ LoadMustWords
    \/ FileChange

SpecLoad == InitLoad /\ [][NextLoad]_vars

\* Collection and analyze_data in run(), on any feeds with the rule sets of
\* AnalyzeRuleSets.
InitAnalyze ==
    /\ Fresh
    /\ title = <<>>
    /\ file = Missing
    /\ CONFIG \in ConfigPool /\ CONFIG.CUSTOM_START_DATE = Unset /\ ~CONFIG.FEISHU_WEBHOOK_URL
    /\ now = MaxNow
    /\ api \in Apis
    /\ \E r \in AnalyzeRuleSets :
          /\ frequency_words = r.frequency
          /\ filter_words = r.filter
          /\ must_words = r.must
    /\ time_range = <<calculate_time_range>>
    /\ pc = "collect"

NextAnalyze ==
    \/ Collect
    \/ Analyze

SpecAnalyze == InitAnalyze /\ [][NextAnalyze]_vars

-----------------------------------------------------------------------------
(* match_keywords: C1, C2 *)

\* Case-insensitive containment, letter by letter: w lies in t at some offset, each
\* character equal to t's or differing from it in case only.
SameLetter(c, d) ==
    c = d \/ {c, d} \in {{"a", "A"}, {"b", "B"}, {"c", "C"}, {"i", "I"}}

ContainsIgnoringCase(w, t) ==
    \E i \in 0..(Len(t) - Len(w)) : \A k \in 1..Len(w) : SameLetter(w[k], t[i + k])

SomeContained(words, t) ==
    \E i \in 1..Len(words) : ContainsIgnoringCase(words[i], t)

AllContained(words, t) ==
    \A i \in 1..Len(words) : ContainsIgnoringCase(words[i], t)

\* C1 as stated: a title that contains a filter word is classified ([], True),
\* whatever the must and frequency words are.
C1_FilterAlwaysWins ==
    (pc = "matched" /\ SomeContained(filter_words, title))
        => match_result = <<<<>>, TRUE>>

\* C1, amended: a non-empty title that contains a filter word is classified
\* ([], True), whatever the must and frequency words are.
C1_FilterWinsOnNonEmptyTitle ==
    (pc = "matched" /\ title # <<>> /\ SomeContained(filter_words, title))
        => match_result = <<<<>>, TRUE>>

\* A title holding a filter word in another case, with a must word that is missing
\* and a frequency word that is contained, has been classified.
C1_Witness ==
    /\ pc = "matched"
    /\ title # <<>>
    /\ SomeContained(filter_words, title)
    /\ \E i \in 1..Len(filter_words) : ~Contains(filter_words[i], title)
    /\ must_words # <<>> /\ ~AllContained(must_words, title)
    /\ SomeContained(frequency_words, title)

\* C2 as stated: with must words configured, a title that contains all of them is
\* never classified ([], False).
C2_RejectedOnlyByMissingMust ==
    (pc = "matched" /\ must_words # <<>> /\ AllContained(must_words, title))
        => match_result # <<<<>>, FALSE>>

\* C2, amended: with must words configured, ([], False) is returned only when the
\* title is empty, a must word is absent from it, or no frequency word is contained
\* in it.
C2_EmptyOutcomeCauses ==
    (pc = "matched" /\ must_words # <<>> /\ match_result = <<<<>>, FALSE>>)
        => \/ title = <<>>
           \/ ~AllContained(must_words, title)
           \/ ~SomeContained(frequency_words, title)

\* A title that contains every must word and a frequency word was classified, and
\* its matches came back.
C2_Witness ==
    /\ pc = "matched"
    /\ must_words # <<>> /\ AllContained(must_words, title)
    /\ SomeContained(frequency_words, title)
    /\ ~SomeContained(filter_words, title)
    /\ match_result[1] # <<>>

-----------------------------------------------------------------------------
(* calculate_time_range: C4, C5, C6 *)

Resolved == pc = "constructed" /\ time_range # <<>>

StartSetting == CONFIG.CUSTOM_START_DATE
EndSetting   == CONFIG.CUSTOM_END_DATE

Min(a, b) == IF a <= b THEN a ELSE b

\* C4 as stated: with a well-formed start date and a configured but malformed end
\* date the window is that of the start-only rule: mode from_date, from the start
\* date to now.
C4_MalformedEndGivesFromDate ==
    (Resolved /\ StartSetting.ok /\ EndSetting.set /\ ~EndSetting.ok)
        => /\ time_range[1].mode = "from_date"
           /\ time_range[1].end_date = now

\* C4, amended: a configured date that fails to parse sends the resolution to the
\* duration rule: with a malformed start date, and also with a well-formed start
\* date and a configured but malformed end date, the window is the duration window.
C4_MalformedDateGivesDuration ==
    (Resolved /\ \/ (StartSetting.set /\ ~StartSetting.ok)
                 \/ (StartSetting.ok /\ EndSetting.set /\ ~EndSetting.ok))
        => /\ time_range[1].mode = "duration"
           /\ time_range[1].end_date = now
           /\ time_range[1].start_date < now

\* The window was resolved from a well-formed start date and a malformed end date.
C4_Witness ==
    /\ Resolved
    /\ StartSetting.ok /\ EndSetting.set /\ ~EndSetting.ok
    /\ strptime(StartSetting) < now
    /\ time_range[1].mode = "duration"

\* C5: the resolved window has start_date <= end_date <= now and one of the three
\* modes, under every time configuration.
C5_WindowOrdered ==
    Resolved =>
        /\ time_range[1].start_date <= time_range[1].end_date
        /\ time_range[1].end_date <= now
        /\ time_range[1].mode \in {"custom_range", "from_date", "duration"}

\* A window was resolved from a date pair that lies in the future, its end before
\* its start, with a negative hour total configured beside it.
C5_Witness ==
    /\ Resolved
    /\ time_range[1].mode = "custom_range"
    /\ strptime(EndSetting) > now
    /\ strptime(StartSetting) > strptime(EndSetting)
    /\ CONFIG.HISTORY_DAYS * 24 + CONFIG.HISTORY_HOURS < 0

\* C6: with both dates well-formed the mode is custom_range, the end is the earlier
\* of the configured end and now, and the start is the configured start unless that
\* is later than the resolved end, when it is the resolved end less one day.
C6_CustomRange ==
    (Resolved /\ StartSetting.ok /\ EndSetting.ok) =>
        LET start == StartSetting.day * 24
            end   == EndSetting.day * 24
            w     == time_range[1]
        IN  /\ w.mode = "custom_range"
            /\ w.end_date = Min(end, now)
            /\ (start <= w.end_date => w.start_date = start)
            /\ (start > w.end_date => w.start_date = w.end_date - 24)
            /\ (start <= end /\ end <= now => w.start_date = start /\ w.end_date = end)
            /\ (end < start => w.start_date = w.end_date - 24 /\ w.start_date # start)

\* A pair with the end before the start, both in the past, was resolved.
C6_Witness ==
    /\ Resolved
    /\ StartSetting.ok /\ EndSetting.ok
    /\ strptime(EndSetting) < strptime(StartSetting)
    /\ strptime(StartSetting) < now
    /\ time_range[1].start_date = strptime(EndSetting) - 24

-----------------------------------------------------------------------------
(* analyze_data: C3, C7 *)

Analyzed == pc = "report" /\ analysis_result # <<>>

\* The place of a keyword in the configured frequency-word list.
ListPosition(keyword) ==
    CHOOSE i \in 1..Len(frequency_words) :
        frequency_words[i] = keyword /\ \A j \in 1..(i - 1) : frequency_words[j] # keyword

\* C3: sorted_keywords is in descending order of count, and of two keywords with
\* equal counts the one earlier in the frequency-word list comes first.
C3_RankingOrder ==
    Analyzed =>
        LET ranking == analysis_result[1].sorted_keywords
        IN  \A i, j \in 1..Len(ranking) :
               i < j => \/ ranking[i][2] > ranking[j][2]
                        \/ /\ ranking[i][2] = ranking[j][2]
                           /\ ListPosition(ranking[i][1]) < ListPosition(ranking[j][1])

Filtered(item)  == match_keywords(item.title)[2]
Matched(item)   == ~match_keywords(item.title)[2] /\ match_keywords(item.title)[1] # <<>>
Unmatched(item) == ~match_keywords(item.title)[2] /\ match_keywords(item.title)[1] = <<>>

Count(data, P(_)) == Cardinality({i \in 1..Len(data) : P(data[i])})

\* C7: total_items counts the headlines, filtered_count those classified as
\* filtered, matched_count those not filtered with a match; a headline rejected by
\* the must words or without a keyword hit is in no group.
C7_OutcomesCounted ==
    Analyzed =>
        LET result == analysis_result[1]
            groups == result.keyword_matches
        IN  /\ result.total_items = Len(all_data)
            /\ result.filtered_count = Count(all_data, Filtered)
            /\ result.matched_count = Count(all_data, Matched)
            /\ \A i \in 1..Len(all_data) :
                  ~Matched(all_data[i]) =>
                      \A g \in 1..Len(groups) : \A k \in 1..Len(groups[g].items) :
                          groups[g].items[k].title # all_data[i].title

\* An analysis of headlines of which one was filtered, one rejected by the must
\* words and one matched.
C7_Witness ==
    /\ Analyzed
    /\ must_words # <<>>
    /\ \E i, j, k \in 1..Len(all_data) :
          /\ Filtered(all_data[i])
          /\ Unmatched(all_data[j])
          /\ Matched(all_data[k])
    /\ analysis_result[1].matched_count < analysis_result[1].total_items

-----------------------------------------------------------------------------
(* run: C8, C9 *)

\* C8: one run collects the headlines at most once and calls analyze_data at most
\* once, so analysis_result is assigned at most once.
C8_OncePerRun ==
    calls.collect <= 1 /\ calls.analyze <= 1

\* C9: once a collection has come back with no headline, the run does no analysis,
\* posts no webhook message and writes no report.
C9_NoDataEndsRun ==
    [][no_data_reported =>
          /\ calls'.analyze = calls.analyze
          /\ calls'.sent = calls.sent
          /\ calls'.saved = calls.saved
          /\ analysis_result' = analysis_result]_vars

-----------------------------------------------------------------------------
(* Keyword loading: C10 *)

Loaded == pc = "calculate_time_range"

\* C10 as stated: when none of the reads of the keyword file succeeds, whatever the
\* failure, filter_words and must_words are empty and frequency_words is the
\* non-empty built-in list.
C10_UnreadableGivesDefaults ==
    (Loaded /\ reads.frequency.state # "ok" /\ reads.filter.state # "ok"
            /\ reads.must.state # "ok")
        => /\ filter_words = <<>>
           /\ must_words = <<>>
           /\ frequency_words = DefaultWords
           /\ frequency_words # <<>>

\* C10, amended: a load whose read fails returns without raising; filter_words and
\* must_words are then empty; frequency_words is the non-empty built-in list when
\* the file is missing and empty when the read fails for any other reason.
C10_UnreadableByCause ==
    Loaded =>
        /\ reads.frequency.state = "missing" =>
               frequency_words = DefaultWords /\ frequency_words # <<>>
        /\ reads.frequency.state = "error" => frequency_words = <<>>
        /\ reads.filter.state # "ok" => filter_words = <<>>
        /\ reads.must.state # "ok" => must_words = <<>>

\* The three lists were loaded from a file that is there but cannot be read.
C10_Witness ==
    /\ Loaded
    /\ reads = [frequency |-> Unreadable, filter |-> Unreadable, must |-> Unreadable]
    /\ file_changes = 0
    /\ frequency_words = <<>>

-----------------------------------------------------------------------------
(* Primary keyword and list order: C11 *)

\* The first word of the configured list, in list order, that the title contains.
FirstHit(t) ==
    frequency_words[CHOOSE i \in 1..Len(frequency_words) :
        /\ ContainsIgnoringCase(frequency_words[i], t)
        /\ \A j \in 1..(i - 1) : ~ContainsIgnoringCase(frequency_words[j], t)]

\* The entries of a group that were made from the headline: a headline is known by
\* its platform and its rank there.
EntriesOf(group, item) ==
    {k \in 1..Len(group.items) :
        /\ group.items[k].platform = item.platform_name
        /\ group.items[k].rank = item.rank
        /\ group.items[k].title = item.title}

\* A line of the source that load_frequency_words keeps.
IsFrequencyLine(line) ==
    line # <<>> /\ line[1] \notin {"#", "!", "+"}

\* C11: a headline with a match is in exactly one group, once, and that group is
\* the one of the first frequency word, in list order, that its title contains; and
\* the loaded frequency words are the source's frequency lines in source order.
C11_PrimaryKeywordIsFirstHit ==
    /\ Analyzed =>
          LET groups == analysis_result[1].keyword_matches
          IN  /\ \A g, h \in 1..Len(groups) :
                    groups[g].keyword = groups[h].keyword => g = h
              /\ \A i \in 1..Len(all_data) :
                    Matched(all_data[i]) =>
                       \A g \in 1..Len(groups) :
                          Cardinality(EntriesOf(groups[g], all_data[i])) =
                             IF groups[g].keyword = FirstHit(all_data[i].title)
                             THEN 1 ELSE 0
              /\ \A i \in 1..Len(all_data) :
                    Matched(all_data[i]) =>
                       \E g \in 1..Len(groups) :
                          groups[g].keyword = FirstHit(all_data[i].title)
    /\ (reads.frequency.state = "ok") =>
          LET lines == stripped_lines(strip(reads.frequency.content))
              kept  == {i \in 1..Len(lines) : IsFrequencyLine(lines[i])}
          IN  /\ Len(frequency_words) = Cardinality(kept)
              /\ \A i \in kept :
                    frequency_words[1 + Cardinality({j \in kept : j < i})] = lines[i]

\* A headline whose title contains two frequency words, the later-listed one earlier
\* in the title, was grouped, with the list loaded from a file of two frequency lines.
C11_Witness ==
    /\ Analyzed
    /\ reads.frequency.state = "ok"
    /\ Len(frequency_words) = 2
    /\ \E i \in 1..Len(all_data) :
          /\ Len(match_keywords(all_data[i].title)[1]) = 2
          /\ ~match_keywords(all_data[i].title)[2]
          /\ FirstHit(all_data[i].title) = <<"b">>
          /\ all_data[i].title = <<"a", "b">>

-----------------------------------------------------------------------------
(* Order inside a group: C12 *)

\* Where in the collected input the headline of a group entry stands.
InputIndex(entry) ==
    CHOOSE i \in 1..Len(all_data) :
        /\ all_data[i].platform_name = entry.platform
        /\ all_data[i].rank = entry.rank

\* C12: the items of every group are in ascending order of rank, and two items of
\* equal rank are in the order in which their headlines were collected.
C12_GroupsSortedByRankStably ==
    Analyzed =>
        LET groups == analysis_result[1].keyword_matches
        IN  \A g \in 1..Len(groups) :
               \A k, l \in 1..Len(groups[g].items) :
                  k < l =>
                     LET a == groups[g].items[k]
                         b == groups[g].items[l]
                     IN  \/ a.rank < b.rank
                         \/ a.rank = b.rank /\ InputIndex(a) < InputIndex(b)

\* A group of three: the sort moved an item collected later ahead of one collected
\* earlier, and two items of equal rank stayed in collection order.
C12_Witness ==
    /\ Analyzed
    /\ \E g \in 1..Len(analysis_result[1].keyword_matches) :
          LET items == analysis_result[1].keyword_matches[g].items
          IN  /\ Len(items) = 3
              /\ InputIndex(items[1]) > InputIndex(items[2])
              /\ items[2].rank = items[3].rank
              /\ InputIndex(items[2]) < InputIndex(items[3])

-----------------------------------------------------------------------------
(* Lines and prefixes: C13 *)

\* The lines of a content that start with `prefix`, each without the prefix and
\* with the whitespace around the remainder trimmed.
TrimmedRemainders(content, prefix) ==
    LET lines == stripped_lines(strip(content))
        IsPrefixed(line) == line # <<>> /\ line[1] = prefix
        kept == SelectSeq(lines, IsPrefixed)
    IN  [i \in 1..Len(kept) |-> strip(Tail(kept[i]))]

\* The lines of a content that go to no list: the empty ones and the comments.
IgnoredLines(content) ==
    LET lines == stripped_lines(strip(content))
    IN  {i \in 1..Len(lines) : lines[i] = <<>> \/ lines[i][1] = "#"}

\* C13: every line of the source has one outcome (ignored, filter, must or
\* frequency), and the word stored for a `!` or `+` line is the remainder after the
\* prefix with the whitespace around it trimmed.
C13_PrefixedWordsTrimmed ==
    Loaded =>
        /\ reads.filter.state = "ok" =>
              filter_words = TrimmedRemainders(reads.filter.content, "!")
        /\ reads.must.state = "ok" =>
              must_words = TrimmedRemainders(reads.must.content, "+")
        /\ (reads.frequency.state = "ok" /\ reads.filter = reads.frequency
                                         /\ reads.must = reads.frequency) =>
              LET content == reads.frequency.content
              IN  Len(frequency_words) + Len(filter_words) + Len(must_words)
                     + Cardinality(IgnoredLines(content))
                  = Len(split(strip(content)))

-----------------------------------------------------------------------------
(* One snapshot of the source: C14 *)

\* C14: the three lists come from one version of the file: there is a version the
\* file held during construction from which all three would be loaded as they are.
C14_SingleSnapshot ==
    Loaded =>
        \E version \in {reads.frequency, reads.filter, reads.must} :
            /\ frequency_words = load_frequency_words(version)
            /\ filter_words = load_filter_words(version)
            /\ must_words = load_must_words(version)

-----------------------------------------------------------------------------
(* Empty words: C15 *)

\* C15: no loaded filter word or must word is the empty string, and with a source
\* whose only line is `!` a non-empty title is not classified as filtered.
C15_NoEmptyWords ==
    Loaded =>
        /\ \A i \in 1..Len(filter_words) : filter_words[i] # <<>>
        /\ \A i \in 1..Len(must_words) : must_words[i] # <<>>
        /\ (reads.filter.state = "ok" /\ strip(reads.filter.content) = <<"!">>) =>
              \A t \in Titles : t # <<>> => ~match_keywords(t)[2]

-----------------------------------------------------------------------------
(* Consistency of the result: C16 *)

RECURSIVE SumSeq(_)
\* The sum of a sequence of numbers.
SumSeq(ns) == IF ns = <<>> THEN 0 ELSE Head(ns) + SumSeq(Tail(ns))

RECURSIVE SumOver(_, _)
\* The sum of f over the set D.
SumOver(f, D) ==
    IF D = {} THEN 0
    ELSE LET d == CHOOSE x \in D : TRUE IN f[d] + SumOver(f, D \ {d})

\* C16: matched_count is the sum of the group sizes and of the counts of
\* sorted_keywords; sorted_keywords has each group's keyword once, with the group's
\* size; no group is empty; matched_count + filtered_count <= total_items; the
\* platform counts sum to total_items.
C16_ResultConsistent ==
    Analyzed =>
        LET result  == analysis_result[1]
            groups  == result.keyword_matches
            ranking == result.sorted_keywords
        IN  /\ result.matched_count =
                  SumSeq([g \in 1..Len(groups) |-> Len(groups[g].items)])
            /\ result.matched_count =
                  SumSeq([r \in 1..Len(ranking) |-> ranking[r][2]])
            /\ Len(ranking) = Len(groups)
            /\ \A g \in 1..Len(groups) :
                  /\ groups[g].items # <<>>
                  /\ Cardinality({r \in 1..Len(ranking) :
                                     ranking[r][1] = groups[g].keyword}) = 1
                  /\ \E r \in 1..Len(ranking) :
                        ranking[r] = <<groups[g].keyword, Len(groups[g].items)>>
            /\ result.matched_count + result.filtered_count <= result.total_items
            /\ SumOver(result.platform_stats, DOMAIN result.platform_stats)
                  = result.total_items

\* A result with two groups of different sizes, a filtered headline, and headlines
\* of both platforms.
C16_Witness ==
    /\ Analyzed
    /\ Len(analysis_result[1].keyword_matches) = 2
    /\ Len(analysis_result[1].keyword_matches[1].items) = 1
    /\ Len(analysis_result[1].keyword_matches[2].items) = 2
    /\ analysis_result[1].filtered_count = 1
    /\ Cardinality(DOMAIN analysis_result[1].platform_stats) = 2

====
